---- MODULE Spec2Model ----
(***************************************************************************)
(* Growth-metrics pipeline of the Vahan dashboard                          *)
(* (VahanDataProcessor in src/script_1.py): cleaning, partitioning by      *)
(* (state, vehicle_category, manufacturer), chronological sort,            *)
(* pct_change at lag 12 / 3 and rolling means over 3 / 6 / 12 rows.        *)
(*                                                                         *)
(* Cells of float columns are records [k, n, d]: k = "num" is the exact    *)
(* rational n/d in lowest terms (d > 0), k = "nan" is the missing marker   *)
(* (NaN), k = "inf" / "ninf" are the IEEE infinities a division by zero    *)
(* produces.  Arithmetic is exact; floating-point rounding is not          *)
(* modelled.  Names of states, categories, manufacturers and classes are   *)
(* positive integer codes in their sort order, 0 is a missing (NaN) name;  *)
(* dates are month numbers, 0 is a missing date (NaT).  The columns        *)
(* manufacturer_clean, year_month and day_of_year are not modelled.        *)
(***************************************************************************)
EXTENDS Integers, Sequences, FiniteSets, TLC

VARIABLES raw_data, processed_data, ret, tie_order,
          filtered_data, selection, result, session_state, scraper

vars == <<raw_data, processed_data, ret, tie_order,
          filtered_data, selection, result, session_state, scraper>>

\* The variables of the dashboard's filters and of the summaries
\* (filtered_data of src/main.py, the filters applied to it, the value returned
\* by the last summary call, st.session_state).
query_vars == <<filtered_data, selection, result, session_state, scraper>>

----------------------------------------------------------------------------
(* Bounds of the model                                                     *)

\* Largest number of rows of an input table.
MaxRows == 13

\* Largest length of the run of consecutive rows of an input table that may
\* deviate from the base series.
MaxDev == 1

\* Largest number of months of a partition of a table the filters are applied to.
MaxFilterMonths == 2

\* Largest number of months of a partition of a table the summaries are made of.
MaxMonths == 14

\* Largest n of a call of get_top_performers.
MaxTop == 2

\* Last month (month 1 is January 2020) for which the generator of the sample
\* data makes records, and largest number of records it makes.
MaxGenMonth == 6

MaxRecords == 1

----------------------------------------------------------------------------
(* Float cells                                                             *)

NaN == [k |-> "nan", n |-> 0, d |-> 1]

PosInf == [k |-> "inf", n |-> 0, d |-> 1]

NegInf == [k |-> "ninf", n |-> 0, d |-> 1]

Abs(x) == IF x < 0 THEN -x ELSE x

RECURSIVE GCD(_, _)
GCD(a, b) == IF b = 0 THEN a ELSE GCD(b, a % b)

\* The rational n/d (d # 0) in lowest terms with a positive denominator.
Rat(n, d) ==
    LET g == GCD(Abs(n), Abs(d))
        s == IF d < 0 THEN -1 ELSE 1
    IN  [k |-> "num", n |-> (s * n) \div g, d |-> (s * d) \div g]

Num(i) == [k |-> "num", n |-> i, d |-> 1]

IsNum(v) == v.k = "num"

isna(v) == v.k = "nan"

notna(v) == ~isna(v)

isfinite(v) == v.k = "num"

Sign(v) ==
    CASE v.k = "inf" -> 1
      [] v.k = "ninf" -> -1
      [] v.k = "num" -> (IF v.n > 0 THEN 1 ELSE IF v.n < 0 THEN -1 ELSE 0)
      [] OTHER -> 0

\* IEEE division a / b as numpy performs it on float64 columns.
FDiv(a, b) ==
    IF isna(a) \/ isna(b) THEN NaN
    ELSE IF IsNum(a) /\ IsNum(b)
         THEN IF b.n = 0
              THEN (IF a.n > 0 THEN PosInf ELSE IF a.n < 0 THEN NegInf ELSE NaN)
              ELSE Rat(a.n * b.d, a.d * b.n)
    ELSE IF IsNum(b)
         THEN (IF Sign(a) * (IF b.n < 0 THEN -1 ELSE 1) > 0 THEN PosInf ELSE NegInf)
    ELSE IF IsNum(a) THEN Num(0)
    ELSE NaN

\* IEEE subtraction a - b.
FSub(a, b) ==
    IF isna(a) \/ isna(b) THEN NaN
    ELSE IF IsNum(a) /\ IsNum(b) THEN Rat(a.n * b.d - b.n * a.d, a.d * b.d)
    ELSE IF IsNum(b) THEN a
    ELSE IF IsNum(a) THEN (IF b.k = "inf" THEN NegInf ELSE PosInf)
    ELSE IF a.k = b.k THEN NaN
    ELSE a

\* IEEE multiplication a * b.
FMul(a, b) ==
    IF isna(a) \/ isna(b) THEN NaN
    ELSE IF IsNum(a) /\ IsNum(b) THEN Rat(a.n * b.n, a.d * b.d)
    ELSE IF Sign(a) * Sign(b) = 0 THEN NaN
    ELSE IF Sign(a) * Sign(b) > 0 THEN PosInf
    ELSE NegInf

\* IEEE addition a + b.
FAdd(a, b) ==
    IF isna(a) \/ isna(b) THEN NaN
    ELSE IF IsNum(a) /\ IsNum(b) THEN Rat(a.n * b.d + b.n * a.d, a.d * b.d)
    ELSE IF IsNum(b) THEN a
    ELSE IF IsNum(a) THEN b
    ELSE IF a.k = b.k THEN a
    ELSE NaN

----------------------------------------------------------------------------
(* Tables                                                                  *)

\* Encoding of a missing date (NaT).
NaT == 0

\* Encoding of a missing name (NaN in an object column).
NaNName == 0

\* A row of the raw table.
Observation(dt, st, cat, cls, man, cnt) ==
    [date |-> dt, state |-> st, vehicle_category |-> cat, vehicle_class |-> cls,
     manufacturer |-> man, registration_count |-> cnt]

\* A row of the processed table: the observation and its derived columns.
MetricRow(r, yoy, qoq, m3, m6, m12) ==
    [date |-> r.date, state |-> r.state, vehicle_category |-> r.vehicle_category,
     vehicle_class |-> r.vehicle_class, manufacturer |-> r.manufacturer,
     registration_count |-> r.registration_count,
     yoy_growth |-> yoy, qoq_growth |-> qoq,
     ma_3m |-> m3, ma_6m |-> m6, ma_12m |-> m12]

\* The observation a processed row was made from.
ObservationOf(m) ==
    Observation(m.date, m.state, m.vehicle_category, m.vehicle_class,
                m.manufacturer, m.registration_count)

\* A key with the vehicle_class in it.
grouping_cols_with_class(r) ==
    <<r.state, r.vehicle_category, r.manufacturer * 100 + r.vehicle_class>>

\* grouping_cols: the partition key of a row.
grouping_cols(r) == <<r.state, r.vehicle_category, r.manufacturer>>

\* A function over 1..n as an evaluated sequence.
AsSeq(f) == f \o <<>>

Column(df, c) == AsSeq([i \in 1..Len(df) |-> df[i][c]])

----------------------------------------------------------------------------
(* Series operations of pandas                                             *)

\* shift reaching one row too few back.
shift_one_short(s, periods) ==
    AsSeq([i \in 1..Len(s) |-> IF i < periods THEN NaN ELSE s[i - periods + 1]])

\* shift filling the rows without a predecessor with the row's own value.
shift_filled(s, periods) ==
    AsSeq([i \in 1..Len(s) |-> IF i <= periods THEN s[i] ELSE s[i - periods]])

\* Series.shift(periods): the value periods rows earlier, NaN on the first rows.
shift(s, periods) ==
    AsSeq([i \in 1..Len(s) |-> IF i <= periods THEN NaN ELSE s[i - periods]])

\* A change that gives up the whole series when one denominator is zero.
pct_change_all_or_nothing(s, periods) ==
    IF \E i \in 1..Len(s) : i > periods /\ Sign(s[i - periods]) = 0
    THEN AsSeq([i \in 1..Len(s) |-> NaN])
    ELSE AsSeq([i \in 1..Len(s) |->
             IF i <= periods THEN NaN
             ELSE FSub(FDiv(s[i], s[i - periods]), Num(1))])

\* Series.pct_change(periods): data / data.shift(periods) - 1.  The forward
\* fill of missing values that older pandas versions apply first changes
\* nothing here: the counts that reach pct_change are all present.
pct_change(s, periods) ==
    LET shifted == shift(s, periods)
    IN  AsSeq([i \in 1..Len(s) |-> FSub(FDiv(s[i], shifted[i]), Num(1))])

RECURSIVE rolling_state(_, _, _)
\* State of the sliding window after each of the first i rows: the sum and the
\* number (nobs) of the non-NaN values in the window.  Each row is added and
\* the row leaving the window is removed, as roll_mean does.
rolling_state(s, window, i) ==
    IF i = 0 THEN <<>>
    ELSE LET prev == rolling_state(s, window, i - 1)
             before == IF i = 1 THEN <<Num(0), 0>> ELSE prev[i - 1]
             added == IF notna(s[i])
                      THEN <<FAdd(before[1], s[i]), before[2] + 1>>
                      ELSE before
             removed == IF i > window /\ notna(s[i - window])
                        THEN <<FSub(added[1], s[i - window]), added[2] - 1>>
                        ELSE added
         IN  Append(prev, removed)

\* rolling mean with min_periods = 1: the mean of the rows there are.
rolling_mean_min_periods_1(s, window) ==
    LET st == rolling_state(s, window, Len(s))
    IN  AsSeq([i \in 1..Len(s) |->
            IF st[i][2] >= 1 THEN FDiv(st[i][1], Num(st[i][2])) ELSE NaN])

\* Series.rolling(window).mean(): min_periods = window, so a row has a mean
\* only when its window holds window non-NaN values.
rolling_mean(s, window) ==
    LET st == rolling_state(s, window, Len(s))
    IN  AsSeq([i \in 1..Len(s) |->
            IF st[i][2] >= window THEN FDiv(st[i][1], Num(st[i][2])) ELSE NaN])

\* Series * 100.
times100(s) == AsSeq([i \in 1..Len(s) |-> FMul(s[i], Num(100))])

----------------------------------------------------------------------------
(* DataFrame operations of pandas                                          *)

\* Row a sorts strictly before row b by date, missing dates last.
DateBefore(a, b) == a.date # NaT /\ (b.date = NaT \/ a.date < b.date)

\* sort_values left out: the group stays in the order of the table.
sort_values_skipped(df, tie) == df

\* DataFrame.sort_values('date'): ascending, NaT last.  The default sort kind
\* (quicksort) is not stable: rows of equal date come out in input order
\* (tie = "input") or in the opposite order (tie = "reversed").
sort_values(df, tie) ==
    LET n == Len(df)
        Ahead(j, i) ==
            \/ DateBefore(df[j], df[i])
            \/ /\ ~DateBefore(df[i], df[j])
               /\ j # i
               /\ IF tie = "input" THEN j < i ELSE j > i
        rank == AsSeq([i \in 1..n |-> 1 + Cardinality({j \in 1..n : Ahead(j, i)})])
    IN  AsSeq([p \in 1..n |-> df[CHOOSE i \in 1..n : rank[i] = p]])

\* DataFrame.dropna(subset=['registration_count']).
dropna(df) == SelectSeq(df, LAMBDA r : notna(r.registration_count))

\* df[df['registration_count'] > 0]: a comparison with NaN is False.
positive_only(df) ==
    SelectSeq(df, LAMBDA r : Sign(r.registration_count) > 0
                             /\ notna(r.registration_count))

KeyPresent(key) == key[1] # NaNName /\ key[2] # NaNName /\ key[3] # NaNName

KeyLess(a, b) ==
    \/ a[1] < b[1]
    \/ a[1] = b[1] /\ a[2] < b[2]
    \/ a[1] = b[1] /\ a[2] = b[2] /\ a[3] < b[3]

RECURSIVE SortedKeys(_)
SortedKeys(keys) ==
    IF keys = {} THEN <<>>
    ELSE LET m == CHOOSE k \in keys : \A o \in keys : o = k \/ KeyLess(k, o)
         IN  <<m>> \o SortedKeys(keys \ {m})

\* df.groupby(grouping_cols): the group keys in sorted order; rows with a
\* missing key component belong to no group (dropna=True).
groupby_keys(df) ==
    SortedKeys({k \in {grouping_cols(df[i]) : i \in 1..Len(df)} : KeyPresent(k)})

\* Metrics computed on the whole frame instead of on the group.
get_group_whole_frame(df, key) == df

\* The rows of one group, in the order of the table.
get_group(df, key) == SelectSeq(df, LAMBDA r : grouping_cols(r) = key)

RECURSIVE concat(_)
concat(frames) ==
    IF frames = <<>> THEN <<>> ELSE Head(frames) \o concat(Tail(frames))

----------------------------------------------------------------------------
(* VahanDataProcessor                                                      *)

\* periods of the year-over-year pct_change.
YoYPeriods == 12

\* periods of the quarter-over-quarter pct_change.
QoQPeriods == 3

\* Windows of the three rolling averages.
Window3 == 3

Window6 == 6

Window12 == 12

\* Outcome of a call: a returned table or a raised exception.
Return(rows) == [status |-> "ok", rows |-> rows]

Raise(exc) == [status |-> exc, rows |-> <<>>]

\* The last call and its outcome; no call is pending or returned.
Called(name, outcome) ==
    [call |-> name, status |-> outcome.status, rows |-> outcome.rows]

NoCall == [call |-> "none", status |-> "none", rows |-> <<>>]

\* Values of the field self.processed_data.
None == [isNone |-> TRUE, rows |-> <<>>]

Some(rows) == [isNone |-> FALSE, rows |-> rows]

\* Body of the loop over the groups: the sorted group with its derived columns.
group_metrics(df, key, tie) ==
    LET group_df == sort_values(get_group(df, key), tie)
        count == Column(group_df, "registration_count")
        yoy == times100(pct_change(count, YoYPeriods))
        qoq == times100(pct_change(count, QoQPeriods))
        m3 == rolling_mean(count, Window3)
        m6 == rolling_mean(count, Window6)
        m12 == rolling_mean(count, Window12)
    IN  AsSeq([i \in 1..Len(group_df) |->
            MetricRow(group_df[i], yoy[i], qoq[i], m3[i], m6[i], m12[i])])

\* VahanDataProcessor._calculate_growth_metrics: pd.concat of an empty list of
\* frames raises ValueError.
calculate_growth_metrics(df, tie) ==
    LET keys == groupby_keys(df)
        result_records == [j \in 1..Len(keys) |-> group_metrics(df, keys[j], tie)]
    IN  IF Len(keys) = 0 THEN Raise("ValueError")
        ELSE Return(concat(result_records))

\* Cleaning that removes the non-positive counts and keeps the missing ones.
clean_keeping_missing(df) ==
    SelectSeq(df, LAMBDA r : isna(r.registration_count)
                             \/ Sign(r.registration_count) > 0)

\* The cleaning steps of clean_and_process_data.
clean(df) == positive_only(dropna(df))

\* A column read from a CSV file whose cells are all empty is a float64 column.
all_missing(df, c) == Len(df) > 0 /\ \A i \in 1..Len(df) : df[i][c] = NaNName

\* VahanDataProcessor.clean_and_process_data, as a function of its argument.
\* The .str accessor of manufacturer_clean raises AttributeError on a float64
\* column.
clean_and_process_data(df, tie) ==
    IF all_missing(df, "manufacturer") THEN Raise("AttributeError")
    ELSE calculate_growth_metrics(clean(df), tie)

\* A call that worked on the caller's frame itself.
caller_frame_aliased(df, out) == IF out.status = "ok" THEN out.rows ELSE clean(df)

\* The frame passed to clean_and_process_data, after the call: the steps work on
\* df.copy() and on the copies that indexing and sort_values().copy() make.
caller_frame(df, out) == df

\* An assignment of the field that does not wait for the table to be built.
assign_processed_data_early(field, out) == Some(out.rows)

\* self.processed_data after the call: the assignment is the last statement
\* before the return, an exception leaves the field as it was.
assign_processed_data(field, out) ==
    IF out.status = "ok" THEN Some(out.rows) ELSE field

----------------------------------------------------------------------------
(* Input tables                                                            *)

\* Monthly counts of the base series (the 13 months of the reference scenario,
\* repeated).
ScenarioCounts == <<100, 110, 120, 90, 95, 100, 105, 110, 115, 120, 125, 130, 140>>

BaseCount(i) == ScenarioCounts[((i - 1) % Len(ScenarioCounts)) + 1]

\* Row i of the base series: month i of partition (1, 1, 1).
BaseRow(i) == Observation(i, 1, 1, 1, 1, Num(BaseCount(i)))

\* Ways in which a row of an input table deviates from the base series: its
\* count is missing, its count is zero, it belongs to another partition, or it
\* is a second record (another vehicle_class) of the month before it.
Deviations == {"count_missing", "count_zero", "other_manufacturer", "same_month"}

Deviate(i, kind) ==
    LET r == BaseRow(i)
    IN  CASE kind = "count_missing" -> [r EXCEPT !.registration_count = NaN]
          [] kind = "count_zero" -> [r EXCEPT !.registration_count = Num(0)]
          [] kind = "other_manufacturer" -> [r EXCEPT !.manufacturer = 2]
          [] kind = "same_month" ->
                [r EXCEPT !.date = IF i = 1 THEN 2 ELSE i - 1, !.vehicle_class = 2]
          [] kind = "state_missing" -> [r EXCEPT !.state = NaNName]
          [] kind = "category_missing" -> [r EXCEPT !.vehicle_category = NaNName]
          [] kind = "manufacturer_missing" -> [r EXCEPT !.manufacturer = NaNName]
          [] kind = "date_missing" -> [r EXCEPT !.date = NaT]

\* The input tables: the first n rows of the base series, n <= MaxRows, where
\* the rows of one run of at most MaxDev consecutive rows may deviate.
TablesWith(deviations) ==
    UNION {
        UNION {
            {[i \in 1..n |-> IF i \in D THEN Deviate(i, kinds[i]) ELSE BaseRow(i)] :
                kinds \in [D -> deviations]} :
            D \in {X \in SUBSET (1..n) :
                      \A x \in X, y \in X : x - y < MaxDev}} :
        n \in 0..MaxRows}

InputTables == TablesWith(Deviations)

\* Rows that lack one of the identity fields.
MissingIdentity == {"state_missing", "category_missing", "manufacturer_missing",
                    "date_missing"}

\* The input tables with rows that lack an identity field.
InputTablesMissingIdentity == TablesWith(MissingIdentity)

\* No filter of the dashboard is applied. A filter that is applied is kept
\* with its arguments: <<start, end>> or <<set of names>>.
NoSelection ==
    [dates |-> <<>>, categories |-> <<>>, states |-> <<>>, manufacturers |-> <<>>]

\* st.session_state before the first run: both keys hold None.
NoSession == [data_processor |-> "None", processed_data |-> None]

\* No call of the scraper is pending or has ended.
NoOutcome == [status |-> "none", rows |-> <<>>]

\* A VahanWebScraper after construction: no driver, and no call made.  The
\* fields driver, all_data and state_data are those of the code (state_data
\* is the all_data of scrape_state_data); states, years, state, year and pc
\* are the arguments and the position of the pending call; drivers and
\* quit_calls are the browser's side: the drivers created and the calls of
\* quit, by driver, in order; succeeded and raised record what the site
\* answered during the pending or last call.
NoScraper ==
    [driver |-> 0, drivers |-> 0, quit_calls |-> <<>>, calls |-> 0,
     pc |-> "idle", states |-> <<>>, years |-> <<>>, state |-> 0, year |-> 0,
     all_data |-> <<>>, state_data |-> <<>>,
     pending |-> NoOutcome, outcome |-> NoOutcome,
     succeeded |-> <<>>, raised |-> {}]

\* No summary call has returned.
NoResult == [call |-> "none", status |-> "none", args |-> <<>>, value |-> <<>>]

\* Columns get_top_performers groups by.
GroupByColumns == {"manufacturer", "vehicle_category"}

\* Two rows of one partition carry the same date.
HasTies(df) ==
    \E i \in 1..Len(df), j \in 1..Len(df) :
        /\ i < j
        /\ df[i].date = df[j].date
        /\ grouping_cols(df[i]) = grouping_cols(df[j])

Reverse(s) == AsSeq([i \in 1..Len(s) |-> s[Len(s) + 1 - i]])

AllCountsPresent(df) == \A i \in 1..Len(df) : notna(df[i].registration_count)

----------------------------------------------------------------------------
(* Helper functions of data_processing: filters                            *)

\* Year of month number 1 (January of the first year of the data).
BaseYear == 2020

\* pd.to_datetime of a 'YYYY-MM-DD' string <<year, month, day>>: midnight of
\* that day, as a month number and a day of the month.
to_datetime(s) == [month |-> (s[1] - BaseYear) * 12 + s[2], day |-> s[3]]

\* The value of the date column of a row of month number k: the first day of
\* the month, midnight.
month_start(k) == [month |-> k, day |-> 1]

\* t1 <= t2 on timestamps.
TsLeq(t1, t2) == t1.month < t2.month \/ (t1.month = t2.month /\ t1.day <= t2.day)

\* A range that ends before its end date.
filter_by_date_range_exclusive_end(df, start_date, end_date) ==
    SelectSeq(df, LAMBDA r :
        /\ r.date # NaT
        /\ TsLeq(to_datetime(start_date), month_start(r.date))
        /\ ~TsLeq(to_datetime(end_date), month_start(r.date)))

\* filter_by_date_range: boolean indexing keeps the row order; a comparison
\* with NaT is False.
filter_by_date_range(df, start_date, end_date) ==
    SelectSeq(df, LAMBDA r :
        /\ r.date # NaT
        /\ TsLeq(to_datetime(start_date), month_start(r.date))
        /\ TsLeq(month_start(r.date), to_datetime(end_date)))

\* Series.isin.
isin(value, values) == value \in values

\* An empty list of categories taken as no filter.
filter_by_categories_empty_is_all(df, categories) ==
    IF categories = {} THEN df
    ELSE SelectSeq(df, LAMBDA r : isin(r.vehicle_category, categories))

filter_by_categories(df, categories) ==
    SelectSeq(df, LAMBDA r : isin(r.vehicle_category, categories))

\* A filter that returns the frame as it is when no row matches.
filter_by_manufacturers_fallback(df, manufacturers) ==
    LET kept == SelectSeq(df, LAMBDA r : isin(r.manufacturer, manufacturers))
    IN  IF kept = <<>> THEN df ELSE kept

filter_by_manufacturers(df, manufacturers) ==
    SelectSeq(df, LAMBDA r : isin(r.manufacturer, manufacturers))

----------------------------------------------------------------------------
(* Helper functions of data_processing: summaries                          *)

\* Series.unique, as a set.
unique_values(df, c) == {df[i][c] : i \in 1..Len(df)}

\* Series.sum: missing values are skipped, the sum of no value is 0.
RECURSIVE series_sum(_)
series_sum(s) ==
    IF s = <<>> THEN Num(0)
    ELSE IF isna(Head(s)) THEN series_sum(Tail(s))
    ELSE FAdd(Head(s), series_sum(Tail(s)))

\* Series.mean: missing values are skipped, the mean of no value is missing.
series_mean(s) ==
    LET present == SelectSeq(s, notna)
    IN  IF present = <<>> THEN NaN
        ELSE FDiv(series_sum(present), Num(Len(present)))

RECURSIVE Ascending(_)
Ascending(S) ==
    IF S = {} THEN <<>>
    ELSE LET m == CHOOSE x \in S : \A y \in S : x <= y
         IN  <<m>> \o Ascending(S \ {m})

\* df.groupby(by)[metric].sum(): one entry per value of the column by, in
\* ascending order of that value; rows with a missing value have no group.
groupby_sum(df, by, metric) ==
    LET keys == Ascending({df[i][by] : i \in 1..Len(df)} \ {NaNName})
    IN  AsSeq([j \in 1..Len(keys) |->
            [key |-> keys[j],
             value |-> series_sum(Column(SelectSeq(df, LAMBDA r : r[by] = keys[j]),
                                         metric))]])

FGreater(a, b) == Sign(FSub(a, b)) > 0

\* The n entries of s of largest value, largest first; among entries of equal
\* value the earlier one of the series comes first with keep = "first", the
\* later one with keep = "last".  Missing values are left out.
largest_first(s, n, keep) ==
    LET present == SelectSeq(s, LAMBDA e : notna(e.value))
        rank == AsSeq([i \in 1..Len(present) |->
                    1 + Cardinality({j \in 1..Len(present) :
                            \/ FGreater(present[j].value, present[i].value)
                            \/ /\ present[j].value = present[i].value
                               /\ IF keep = "first" THEN j < i ELSE j > i})])
        size == IF n <= 0 THEN 0 ELSE IF n < Len(present) THEN n ELSE Len(present)
    IN  AsSeq([p \in 1..size |->
            present[CHOOSE i \in 1..Len(present) : rank[i] = p]])

\* The first n entries, whatever their values.
nlargest_head(s, n) == SubSeq(s, 1, IF n <= 0 THEN 0 ELSE IF n < Len(s) THEN n ELSE Len(s))

\* Series.nlargest(n, keep='last').
nlargest_keep_last(s, n) == largest_first(s, n, "last")

\* Series.nlargest(n), keep='first': of entries of equal value the one earlier
\* in the series is taken, and listed, first.
nlargest(s, n) == largest_first(s, n, "first")

\* get_top_performers(df, metric, groupby, n)
get_top_performers(df, metric, groupby, n) ==
    nlargest(groupby_sum(df, groupby, metric), n)

\* Number of entries of top_manufacturers and top_states.
TopInSummary == 5

\* A missing value where the category has no defined yoy_growth.
latest_yoy_growth_missing(cat_data) ==
    LET defined == SelectSeq(Column(cat_data, "yoy_growth"), notna)
    IN  IF defined = <<>> THEN NaN ELSE defined[Len(defined)]

\* The last value of the column that is not missing, 0 when there is none.
latest_yoy_growth(cat_data) ==
    LET defined == SelectSeq(Column(cat_data, "yoy_growth"), notna)
    IN  IF defined = <<>> THEN Num(0) ELSE defined[Len(defined)]

\* An entry computed from the whole table instead of the rows of the category.
category_summary_whole_table(df, category) ==
    [total_registrations |-> series_sum(Column(df, "registration_count")),
     avg_monthly_registrations |-> series_mean(Column(df, "registration_count")),
     top_manufacturers |->
         nlargest(groupby_sum(df, "manufacturer", "registration_count"), TopInSummary),
     top_states |->
         nlargest(groupby_sum(df, "state", "registration_count"), TopInSummary),
     latest_yoy_growth |-> latest_yoy_growth(df)]

\* The entry of one category in the dictionary of get_category_summary.
category_summary(df, category) ==
    LET cat_data == SelectSeq(df, LAMBDA r :
                        category # NaNName /\ r.vehicle_category = category)
        count == Column(cat_data, "registration_count")
    IN  [total_registrations |-> series_sum(count),
         avg_monthly_registrations |-> series_mean(count),
         top_manufacturers |->
             nlargest(groupby_sum(cat_data, "manufacturer", "registration_count"),
                      TopInSummary),
         top_states |->
             nlargest(groupby_sum(cat_data, "state", "registration_count"),
                      TopInSummary),
         latest_yoy_growth |-> latest_yoy_growth(cat_data)]

\* VahanDataProcessor.get_category_summary(df): one entry per value of
\* vehicle_category.
get_category_summary(df) ==
    [category \in {df[i].vehicle_category : i \in 1..Len(df)} |->
        category_summary(df, category)]

\* The aggregation of get_time_series_data with its default arguments: one row
\* per (year_month, vehicle_category), in ascending order, with the sum of the
\* counts and the means of the growth columns.
time_series(df) ==
    LET months == Ascending(unique_values(df, "date") \ {NaT})
        of_month(d) ==
            LET cats == Ascending(unique_values(
                            SelectSeq(df, LAMBDA r : r.date = d), "vehicle_category")
                            \ {NaNName})
            IN  AsSeq([j \in 1..Len(cats) |->
                    LET group == SelectSeq(df, LAMBDA r :
                                     r.date = d /\ r.vehicle_category = cats[j])
                    IN  [year_month |-> d,
                         vehicle_category |-> cats[j],
                         registration_count |->
                             series_sum(Column(group, "registration_count")),
                         yoy_growth |-> series_mean(Column(group, "yoy_growth")),
                         qoq_growth |-> series_mean(Column(group, "qoq_growth"))]])
    IN  concat([i \in 1..Len(months) |-> of_month(months[i])])

\* A time series of no rows where there is no processed table.
get_time_series_data_lenient(field) ==
    Return(IF field.isNone THEN <<>> ELSE time_series(field.rows))

\* VahanDataProcessor.get_time_series_data(), as a function of the field
\* self.processed_data.
get_time_series_data(field) ==
    IF field.isNone THEN Raise("ValueError") ELSE Return(time_series(field.rows))

\* Name of the file export_processed_data writes by default.
ExportPath == <<"processed_vahan_data.csv">>

\* VahanDataProcessor.export_processed_data(): the path of the file written.
export_processed_data(field) ==
    IF field.isNone THEN Raise("ValueError") ELSE Return(ExportPath)

\* VahanDataProcessor.get_category_summary() without argument.
get_category_summary_of_field(field) ==
    IF field.isNone THEN Raise("ValueError")
    ELSE Return(get_category_summary(field.rows))

\* The value of `result` after a call with no argument.
Answered(name, outcome) ==
    [call |-> name, status |-> outcome.status, args |-> <<>>, value |-> outcome.rows]

----------------------------------------------------------------------------
(* Web scraper (VahanWebScraper, src/script_5.py)                          *)

\* Bounds of the calls of scrape_multiple_states.
MaxStates == 2

MaxYears == 2

MaxCalls == 2

\* First of the years scraped by default.
FirstYear == 2020

\* Lists of states (codes of names) and of years a call is made with.
StateLists == {AsSeq([i \in 1..n |-> n + 1 - i]) : n \in 0..MaxStates}

YearLists == {AsSeq([i \in 1..n |-> FirstYear + i - 1]) : n \in 0..MaxYears}

\* year_data of a (state, year) whose page had data, with the columns state
\* and year set.
year_data(state_name, year) == <<[state |-> state_name, year |-> year]>>

\* pd.concat(all_data, ignore_index=True) if all_data else pd.DataFrame()
concat_or_empty(all_data) == IF all_data = <<>> THEN <<>> ELSE concat(all_data)

\* pd.concat can raise only where it has frames to align.
concat_may_raise(all_data) == Len(all_data) >= 2

\* The list after `if not data.empty: all_data.append(data)`.
append_if_not_empty(all_data, data) ==
    IF data = <<>> THEN all_data ELSE Append(all_data, data)

\* The finally block of scrape_multiple_states: `if self.driver:` quits
\* whatever driver the field holds.
quit_in_finally(sc) ==
    IF sc.driver # 0 THEN Append(sc.quit_calls, sc.driver) ELSE sc.quit_calls

\* The scraper at the next year of the loop of scrape_state_data, or at its
\* return statement after the last year.
next_year(sc) ==
    IF sc.year < Len(sc.years)
    THEN [sc EXCEPT !.year = sc.year + 1, !.pc = "select_state"]
    ELSE [sc EXCEPT !.pc = "return_state_data"]

\* The scraper at the next state of the loop of scrape_multiple_states, or at
\* its return statement after the last state.
next_state(sc) ==
    IF sc.state < Len(sc.states)
    THEN [sc EXCEPT !.state = sc.state + 1, !.year = IF sc.years = <<>> THEN 0 ELSE 1,
                    !.state_data = <<>>,
                    !.pc = IF sc.years = <<>> THEN "return_state_data"
                                              ELSE "select_state"]
    ELSE [sc EXCEPT !.state_data = <<>>, !.pc = "return"]

\* The handler `except Exception: continue` of the loop over the states.
state_raised(sc) ==
    next_state([sc EXCEPT !.raised = sc.raised \cup {sc.states[sc.state]}])

----------------------------------------------------------------------------
(* Tables of the dashboard                                                 *)

\* Codes of the vehicle categories and of the manufacturers of these tables.
Categories == {1, 2}

Manufacturers == {1, 2}

\* The first n months of the base series, for one (category, manufacturer).
PartitionRows(cat, man, n) ==
    AsSeq([i \in 1..n |-> Observation(i, 1, cat, 1, man, Num(BaseCount(i)))])

\* Raw tables with two partitions of at most maxlen months each.
TwoPartitionTables(maxlen) ==
    {PartitionRows(ka[1], ka[2], na) \o PartitionRows(kb[1], kb[2], nb) :
        <<ka, kb, na, nb>> \in
            {q \in (Categories \X Manufacturers) \X (Categories \X Manufacturers)
                     \X (0..maxlen) \X (0..maxlen) :
                KeyLess(<<1>> \o q[1], <<1>> \o q[2])}}

\* Date strings the date filter is called with.
DateStrings == {<<BaseYear, m, d>> : m \in 1..MaxFilterMonths, d \in {1, 15}}

----------------------------------------------------------------------------
(* Generator of the sample data (generate_sample_vahan_data, src/script.py) *)

\* Codes of the categories "2W", "3W", "4W".
GenCategories == {1, 2, 3}

\* Manufacturers by the market-share adjustment they get: 1 for HERO MOTOCORP
\* and MARUTI SUZUKI, 2 for HONDA MOTORCYCLE, HYUNDAI and TATA, 3 for the
\* others.  The list of "3W" has manufacturers of the third kind only.
GenManufacturers(category) == IF category = 2 THEN {3} ELSE {1, 2, 3}

\* The ends of an interval a draw is taken from.
Ends(lo, hi) == {lo, hi}

\* random.randint(lo, hi) of the base count of a category.
base_count_draws(category) ==
    CASE category = 1 -> Ends(5000, 25000)
      [] category = 2 -> Ends(500, 3000)
      [] category = 3 -> Ends(1000, 8000)

\* random.uniform of the market-share adjustment, in tenths; 10 is no
\* adjustment.
share_draws(manufacturer) ==
    CASE manufacturer = 1 -> Ends(15, 25)
      [] manufacturer = 2 -> Ends(12, 18)
      [] OTHER -> {10}

GenYear(date) == BaseYear + (date - 1) \div 12

GenMonth(date) == ((date - 1) % 12) + 1

\* random.uniform of the seasonal variation, in tenths.
seasonal_draws(date) ==
    IF GenMonth(date) \in {3, 4, 10, 11} THEN Ends(12, 14)
    ELSE IF GenMonth(date) \in {6, 7, 8} THEN Ends(7, 9)
    ELSE {10}

\* random.uniform of the COVID impact, in tenths.
covid_draws(date) ==
    IF GenYear(date) = 2020 /\ GenMonth(date) >= 4 THEN Ends(3, 6)
    ELSE IF GenYear(date) = 2021 THEN Ends(6, 9)
    ELSE {10}

Tenths(t) == Rat(t, 10)

\* No manufacturer name of the lists contains "ELECTRIC" and no vehicle class
\* of "2W" contains "E-".
Electric(category, manufacturer) == FALSE

growth_factor(category, manufacturer, date) ==
    IF category = 1 /\ Electric(category, manufacturer)
    THEN FAdd(Num(1), FMul(Num(GenYear(date) - 2020), Tenths(3)))
    ELSE Num(1)

\* int() of a finite float: truncation towards zero.
int(v) == IF v.n >= 0 THEN v.n \div v.d ELSE -((-v.n) \div v.d)

max(a, b) == IF a >= b THEN a ELSE b

\* A count made of the seasonal change alone, not brought up to 1.
final_count_of_change(base_count, seasonal_factor, growth_factor_) ==
    int(FMul(FMul(base_count, FSub(seasonal_factor, Num(1))), growth_factor_))

\* final_count = max(1, int(base_count * seasonal_factor * growth_factor))
final_count(base_count, seasonal_factor, growth_factor_) ==
    max(1, int(FMul(FMul(base_count, seasonal_factor), growth_factor_)))

\* The records one pass of the loop body can append for a month, a category
\* and a manufacturer.
records(date, category, manufacturer) ==
    {Observation(date, 1, category, 1, manufacturer,
         Num(final_count(FMul(Num(b), Tenths(sh)),
                         FMul(Tenths(se), Tenths(co)),
                         growth_factor(category, manufacturer, date)))) :
        <<b, sh, se, co>> \in base_count_draws(category) \X share_draws(manufacturer)
                                 \X seasonal_draws(date) \X covid_draws(date)}

----------------------------------------------------------------------------
(* The dashboard (main of src/main.py)                                     *)

\* date.strftime('%Y-%m-%d') of the date of a row of month number k.
strftime(k) == <<BaseYear + (k - 1) \div 12, ((k - 1) % 12) + 1, 1>>

\* Number of states and of manufacturers selected by default.
TopDefault == 10

\* groupby(c)['registration_count'].sum().nlargest(10).index.tolist()
top_names(df, c) ==
    LET top == nlargest(groupby_sum(df, c, "registration_count"), TopDefault)
    IN  {top[i].key : i \in 1..Len(top)}

\* The values of the widgets on the first run: the whole range of dates, every
\* category, the top states and the top manufacturers.
default_selection(df) ==
    LET months == unique_values(df, "date")
        min_date == CHOOSE k \in months : \A j \in months : k <= j
        max_date == CHOOSE k \in months : \A j \in months : k >= j
    IN  [dates |-> <<strftime(min_date), strftime(max_date)>>,
         categories |-> <<unique_values(df, "vehicle_category")>>,
         states |-> <<top_names(df, "state")>>,
         manufacturers |-> <<top_names(df, "manufacturer")>>]

\* Values of the date widget: a range of two dates between the first and the
\* last date of the table, or one date while the range is being picked.
date_input(df) ==
    LET sel == default_selection(df)
        dates == {d \in DateStrings :
                     /\ TsLeq(to_datetime(sel.dates[1]), to_datetime(d))
                     /\ TsLeq(to_datetime(d), to_datetime(sel.dates[2]))}
    IN  {<<d>> : d \in dates}
        \cup {<<d, e>> : <<d, e>> \in
                  {x \in dates \X dates : TsLeq(to_datetime(x[1]), to_datetime(x[2]))}}

\* The selections that differ from sel in the value of one widget.
widget_changes(sel, df) ==
    ({[sel EXCEPT !.dates = d] : d \in date_input(df)}
     \cup {[sel EXCEPT !.categories = <<c>>] :
               c \in SUBSET unique_values(df, "vehicle_category")}
     \cup {[sel EXCEPT !.states = <<c>>] : c \in SUBSET unique_values(df, "state")}
     \cup {[sel EXCEPT !.manufacturers = <<c>>] :
               c \in SUBSET unique_values(df, "manufacturer")})
    \ {sel}

\* The filters without the tests for an empty selection.
apply_filters_unguarded(processed, sel) ==
    LET by_date == IF Len(sel.dates) = 2
                   THEN filter_by_date_range(processed, sel.dates[1], sel.dates[2])
                   ELSE processed
        by_category == filter_by_categories(by_date, sel.categories[1])
        by_state == SelectSeq(by_category, LAMBDA r : isin(r.state, sel.states[1]))
    IN  filter_by_manufacturers(by_state, sel.manufacturers[1])

\* "Apply filters" of main: a copy of the processed table, filtered by date
\* range, categories, states and manufacturers in this order; a range of other
\* than two dates and an empty selection are skipped.
apply_filters(processed, sel) ==
    LET by_date == IF Len(sel.dates) = 2
                   THEN filter_by_date_range(processed, sel.dates[1], sel.dates[2])
                   ELSE processed
        by_category == IF sel.categories[1] # {}
                       THEN filter_by_categories(by_date, sel.categories[1])
                       ELSE by_date
        by_state == IF sel.states[1] # {}
                    THEN SelectSeq(by_category, LAMBDA r : isin(r.state, sel.states[1]))
                    ELSE by_category
    IN  IF sel.manufacturers[1] # {}
        THEN filter_by_manufacturers(by_state, sel.manufacturers[1])
        ELSE by_state

\* A run that keeps what it has filtered.
session_state_overwritten(session, filtered) ==
    [session EXCEPT !.processed_data = Some(filtered)]

\* st.session_state after a run that found a processor in it: the run reads
\* the two keys and assigns neither.
session_state_on_rerun(session, filtered) == session

----------------------------------------------------------------------------
(* State machine                                                           *)

\* The order in which the sort leaves rows of equal date is a property of the
\* build; it shows only on tables with such rows.
Init ==
    /\ raw_data \in InputTables
    /\ processed_data = None
    /\ ret = NoCall
    /\ tie_order \in IF HasTies(raw_data) THEN {"input", "reversed"} ELSE {"input"}
    /\ filtered_data = None
    /\ selection = NoSelection
    /\ result = NoResult
    /\ session_state = NoSession
    /\ scraper = NoScraper

\* processor.clean_and_process_data(raw_data): the table is returned and kept in
\* self.processed_data; when an exception is raised the field keeps its value.
CleanAndProcessData ==
    /\ ret = NoCall
    /\ LET out == clean_and_process_data(raw_data, tie_order)
       IN  /\ ret' = Called("clean_and_process_data", out)
           /\ processed_data' = assign_processed_data(processed_data, out)
           /\ raw_data' = caller_frame(raw_data, out)
    /\ UNCHANGED <<tie_order, query_vars>>

\* processor._calculate_growth_metrics(raw_data), called on a table whose counts
\* are all present.
CalculateGrowthMetrics ==
    /\ ret = NoCall
    /\ AllCountsPresent(raw_data)
    /\ ret' = Called("_calculate_growth_metrics",
                      calculate_growth_metrics(raw_data, tie_order))
    /\ UNCHANGED <<raw_data, processed_data, tie_order, query_vars>>

\* The caller takes the returned table and the loader hands over the same
\* rows in the opposite order.
ReorderInput ==
    /\ raw_data' = Reverse(raw_data)
    /\ ret' = NoCall
    /\ UNCHANGED <<processed_data, tie_order, query_vars>>

Next == CleanAndProcessData \/ CalculateGrowthMetrics \/ ReorderInput

Spec == Init /\ [][Next]_vars

\* The same processor on tables with rows that lack an identity field.
InitMissingIdentity ==
    /\ raw_data \in InputTablesMissingIdentity
    /\ processed_data = None
    /\ ret = NoCall
    /\ tie_order = "input"
    /\ filtered_data = None
    /\ selection = NoSelection
    /\ result = NoResult
    /\ session_state = NoSession
    /\ scraper = NoScraper

SpecMissingIdentity == InitMissingIdentity /\ [][Next]_vars

\* The dashboard on a loaded table: no call made yet, nothing selected.
InitFilters ==
    /\ raw_data \in TwoPartitionTables(MaxFilterMonths)
    /\ processed_data = None
    /\ ret = NoCall
    /\ tie_order = "input"
    /\ filtered_data = None
    /\ selection = NoSelection
    /\ result = NoResult
    /\ session_state = NoSession
    /\ scraper = NoScraper

\* filtered_data = processed_data.copy()
CopyProcessedData ==
    /\ ~processed_data.isNone
    /\ filtered_data.isNone
    /\ filtered_data' = Some(processed_data.rows)
    /\ UNCHANGED <<raw_data, processed_data, ret, tie_order, selection, result,
                   session_state, scraper>>

\* filtered_data = filter_by_date_range(filtered_data, start, end)
FilterByDateRange ==
    /\ ~filtered_data.isNone
    /\ selection.dates = <<>>
    /\ \E start_date \in DateStrings, end_date \in DateStrings :
           /\ filtered_data' =
                  Some(filter_by_date_range(filtered_data.rows, start_date, end_date))
           /\ selection' = [selection EXCEPT !.dates = <<start_date, end_date>>]
    /\ UNCHANGED <<raw_data, processed_data, ret, tie_order, result, session_state, scraper>>

\* filtered_data = filter_by_categories(filtered_data, categories)
FilterByCategories ==
    /\ ~filtered_data.isNone
    /\ selection.categories = <<>>
    /\ \E categories \in SUBSET Categories :
           /\ filtered_data' = Some(filter_by_categories(filtered_data.rows, categories))
           /\ selection' = [selection EXCEPT !.categories = <<categories>>]
    /\ UNCHANGED <<raw_data, processed_data, ret, tie_order, result, session_state, scraper>>

\* filtered_data = filter_by_manufacturers(filtered_data, manufacturers)
FilterByManufacturers ==
    /\ ~filtered_data.isNone
    /\ selection.manufacturers = <<>>
    /\ \E manufacturers \in SUBSET Manufacturers :
           /\ filtered_data' =
                  Some(filter_by_manufacturers(filtered_data.rows, manufacturers))
           /\ selection' = [selection EXCEPT !.manufacturers = <<manufacturers>>]
    /\ UNCHANGED <<raw_data, processed_data, ret, tie_order, result, session_state, scraper>>

\* The three filters, applied at most once each, in any order.
NextFilters ==
    \/ CleanAndProcessData
    \/ CopyProcessedData
    \/ FilterByDateRange
    \/ FilterByCategories
    \/ FilterByManufacturers

SpecFilters == InitFilters /\ [][NextFilters]_vars

\* The processor on a loaded table of two partitions, before any call.
InitSummaries ==
    /\ raw_data \in TwoPartitionTables(MaxMonths)
    /\ processed_data = None
    /\ ret = NoCall
    /\ tie_order = "input"
    /\ filtered_data = None
    /\ selection = NoSelection
    /\ result = NoResult
    /\ session_state = NoSession
    /\ scraper = NoScraper

\* get_top_performers(processed_data, 'registration_count', groupby, n)
GetTopPerformers ==
    /\ ~processed_data.isNone
    /\ \E groupby \in GroupByColumns, n \in 0..MaxTop :
           result' = [call |-> "get_top_performers", status |-> "ok",
                      args |-> <<groupby, n>>,
                      value |-> get_top_performers(processed_data.rows,
                                    "registration_count", groupby, n)]
    /\ UNCHANGED <<raw_data, processed_data, ret, tie_order, filtered_data, selection,
                   session_state, scraper>>

\* processor.get_category_summary(): the summary of self.processed_data,
\* ValueError when no table was processed.
GetCategorySummary ==
    /\ result' = Answered("get_category_summary",
                           get_category_summary_of_field(processed_data))
    /\ UNCHANGED <<raw_data, processed_data, ret, tie_order, filtered_data, selection,
                   session_state, scraper>>

\* processor.get_time_series_data()
GetTimeSeriesData ==
    /\ result' = Answered("get_time_series_data", get_time_series_data(processed_data))
    /\ UNCHANGED <<raw_data, processed_data, ret, tie_order, filtered_data, selection,
                   session_state, scraper>>

\* processor.export_processed_data()
ExportProcessedData ==
    /\ result' = Answered("export_processed_data",
                           export_processed_data(processed_data))
    /\ UNCHANGED <<raw_data, processed_data, ret, tie_order, filtered_data, selection,
                   session_state, scraper>>

NextSummaries ==
    \/ CleanAndProcessData
    \/ GetTopPerformers
    \/ GetCategorySummary
    \/ GetTimeSeriesData
    \/ ExportProcessedData

SpecSummaries == InitSummaries /\ [][NextSummaries]_vars

\* The generator before its first record: data_records, held in raw_data, is
\* empty.
InitGenerator ==
    /\ raw_data = <<>>
    /\ processed_data = None
    /\ ret = NoCall
    /\ tie_order = "input"
    /\ filtered_data = None
    /\ selection = NoSelection
    /\ result = NoResult
    /\ session_state = NoSession
    /\ scraper = NoScraper

\* One pass of the loop body: a record of the current month, or of a later
\* one, is appended to data_records.
AppendRecord ==
    /\ Len(raw_data) < MaxRecords
    /\ \E date \in 1..MaxGenMonth, category \in GenCategories :
           \E manufacturer \in GenManufacturers(category) :
               \E record \in records(date, category, manufacturer) :
                   /\ raw_data # <<>> => raw_data[Len(raw_data)].date <= date
                   /\ raw_data' = Append(raw_data, record)
    /\ UNCHANGED <<processed_data, ret, tie_order, query_vars>>

NextGenerator == AppendRecord

SpecGenerator == InitGenerator /\ [][NextGenerator]_vars

\* A session of the dashboard before its first run.
InitDashboard ==
    /\ raw_data \in TwoPartitionTables(MaxFilterMonths)
    /\ processed_data = None
    /\ ret = NoCall
    /\ tie_order = "input"
    /\ filtered_data = None
    /\ selection = NoSelection
    /\ result = NoResult
    /\ session_state = NoSession
    /\ scraper = NoScraper

\* A run of main with no processor in the session state: the table is loaded
\* and processed, both keys are set and the filters are applied with the
\* widgets at their defaults.  When processing raises, the run ends there and
\* the session state keeps its None values.
MainFirstRun ==
    /\ session_state.data_processor = "None"
    /\ LET out == clean_and_process_data(raw_data, tie_order)
           sel == default_selection(out.rows)
           filtered == apply_filters(out.rows, sel)
       IN  /\ ret' = Called("clean_and_process_data", out)
           /\ raw_data' = caller_frame(raw_data, out)
           /\ processed_data' = assign_processed_data(None, out)
           /\ IF out.status = "ok"
              THEN /\ session_state' = [data_processor |-> "VahanDataProcessor",
                                        processed_data |-> Some(out.rows)]
                   /\ selection' = sel
                   /\ filtered_data' = Some(filtered)
              ELSE UNCHANGED <<session_state, selection, filtered_data>>
    /\ UNCHANGED <<tie_order, result, scraper>>

\* A run of main after the user changed one widget: the table is read from
\* the session state and the filters are applied to a copy of it.  The charts
\* and summaries the run shows are computed from the filtered copy and kept
\* nowhere.
MainRerun ==
    /\ session_state.data_processor # "None"
    /\ \E sel \in widget_changes(selection, session_state.processed_data.rows) :
           LET filtered == apply_filters(session_state.processed_data.rows, sel)
           IN  /\ selection' = sel
               /\ filtered_data' = Some(filtered)
               /\ session_state' = session_state_on_rerun(session_state, filtered)
    /\ UNCHANGED <<raw_data, processed_data, ret, tie_order, result, scraper>>

NextDashboard == MainFirstRun \/ MainRerun

SpecDashboard == InitDashboard /\ [][NextDashboard]_vars

\* A scraper after construction; the processor and the dashboard are not used.
InitScraper ==
    /\ raw_data = <<>>
    /\ processed_data = None
    /\ ret = NoCall
    /\ tie_order = "input"
    /\ filtered_data = None
    /\ selection = NoSelection
    /\ result = NoResult
    /\ session_state = NoSession
    /\ scraper = NoScraper

\* The variables of the processor and of the dashboard.
analytics_vars == <<raw_data, processed_data, ret, tie_order, filtered_data, selection,
                   result, session_state>>

\* scraper.scrape_multiple_states(states, years) is called: all_data = [].
ScrapeMultipleStates ==
    /\ scraper.pc = "idle"
    /\ scraper.calls < MaxCalls
    /\ \E states \in StateLists, years \in YearLists :
           scraper' = [scraper EXCEPT !.pc = "setup_driver",
                                      !.states = states, !.years = years,
                                      !.state = 0, !.year = 0,
                                      !.all_data = <<>>, !.state_data = <<>>,
                                      !.pending = NoOutcome, !.outcome = NoOutcome,
                                      !.succeeded = <<>>, !.raised = {}]
    /\ UNCHANGED analytics_vars

\* self.driver = self.setup_driver(): a new driver is assigned, or the
\* exception of setup_driver leaves the field as it was and leads to the
\* finally block.
SetupDriver ==
    /\ scraper.pc = "setup_driver"
    /\ \/ scraper' = [scraper EXCEPT !.drivers = scraper.drivers + 1,
                                     !.driver = scraper.drivers + 1,
                                     !.pc = "navigate_to_dashboard"]
       \/ scraper' = [scraper EXCEPT !.pending = Raise("WebDriverException"),
                                     !.pc = "finally"]
    /\ UNCHANGED analytics_vars

\* if not self.navigate_to_dashboard(): return pd.DataFrame()
NavigateToDashboard ==
    /\ scraper.pc = "navigate_to_dashboard"
    /\ \/ scraper' = next_state(scraper)
       \/ scraper' = [scraper EXCEPT !.pending = Return(<<>>), !.pc = "finally"]
    /\ UNCHANGED analytics_vars

\* if not self.select_state(state_name): continue
SelectState ==
    /\ scraper.pc = "select_state"
    /\ \/ scraper' = [scraper EXCEPT !.pc = "set_date_range"]
       \/ scraper' = next_year(scraper)
    /\ UNCHANGED analytics_vars

\* if not self.set_date_range(year): continue
SetDateRange ==
    /\ scraper.pc = "set_date_range"
    /\ \/ scraper' = [scraper EXCEPT !.pc = "refresh_data"]
       \/ scraper' = next_year(scraper)
    /\ UNCHANGED analytics_vars

\* if not self.refresh_data(): continue
RefreshData ==
    /\ scraper.pc = "refresh_data"
    /\ \/ scraper' = [scraper EXCEPT !.pc = "extract_table_data"]
       \/ scraper' = next_year(scraper)
    /\ UNCHANGED analytics_vars

\* year_data = self.extract_table_data() and the statements after it: a table
\* with rows is appended, an empty one is not, and an exception raised there
\* ends scrape_state_data for this state.
ExtractTableData ==
    /\ scraper.pc = "extract_table_data"
    /\ LET state_name == scraper.states[scraper.state]
           year == scraper.years[scraper.year]
       IN  \/ scraper' = next_year(
                  [scraper EXCEPT !.state_data =
                                      Append(scraper.state_data,
                                             year_data(state_name, year)),
                                  !.succeeded =
                                      Append(scraper.succeeded, <<state_name, year>>)])
           \/ scraper' = next_year(scraper)
           \/ scraper' = state_raised(scraper)
    /\ UNCHANGED analytics_vars

\* The return statement of scrape_state_data and the statements of the caller
\* after it: the table of the state is appended when it has rows; an
\* exception of pd.concat ends the state.
ReturnStateData ==
    /\ scraper.pc = "return_state_data"
    /\ \/ scraper' = next_state(
                  [scraper EXCEPT !.all_data =
                      append_if_not_empty(scraper.all_data,
                                          concat_or_empty(scraper.state_data))])
       \/ /\ concat_may_raise(scraper.state_data)
          /\ scraper' = state_raised(scraper)
    /\ UNCHANGED analytics_vars

\* The return statement of scrape_multiple_states.
ReturnAllData ==
    /\ scraper.pc = "return"
    /\ \/ scraper' = [scraper EXCEPT !.pending = Return(concat_or_empty(scraper.all_data)),
                                     !.pc = "finally"]
       \/ /\ concat_may_raise(scraper.all_data)
          /\ scraper' = [scraper EXCEPT !.pending = Raise("InvalidIndexError"),
                                        !.pc = "finally"]
    /\ UNCHANGED analytics_vars

\* The finally block, after which the call returns or raises.
Finally ==
    /\ scraper.pc = "finally"
    /\ scraper' = [scraper EXCEPT !.quit_calls = quit_in_finally(scraper),
                                  !.outcome = scraper.pending,
                                  !.pending = NoOutcome,
                                  !.calls = scraper.calls + 1,
                                  !.pc = "idle"]
    /\ UNCHANGED analytics_vars

NextScraper ==
    \/ ScrapeMultipleStates
    \/ SetupDriver
    \/ NavigateToDashboard
    \/ SelectState
    \/ SetDateRange
    \/ RefreshData
    \/ ExtractTableData
    \/ ReturnStateData
    \/ ReturnAllData
    \/ Finally

SpecScraper == InitScraper /\ [][NextScraper]_vars

----------------------------------------------------------------------------
(* Properties                                                              *)

\* The table returned by the last call.
Out == ret.rows

Returned == ret.status = "ok"

\* The partition keys of a processed table.
KeysOf(out) == {grouping_cols(out[i]) : i \in 1..Len(out)}

\* The Series of a key: the rows of the table with that key, in table order.
Series(out, key) == SelectSeq(out, LAMBDA m : grouping_cols(m) = key)

\* count of row i of a Series, an integer.
CountAt(S, i) == S[i].registration_count.n

\* (count[i] - count[i-lag]) / count[i-lag] * 100.
ExpectedGrowth(S, i, lag) ==
    Rat((CountAt(S, i) - CountAt(S, i - lag)) * 100, CountAt(S, i - lag))

RECURSIVE SumCounts(_, _, _)
SumCounts(S, lo, hi) ==
    IF lo > hi THEN 0 ELSE SumCounts(S, lo, hi - 1) + CountAt(S, hi)

\* Arithmetic mean of the counts of the window rows ending at row i.
ExpectedMean(S, i, window) == Rat(SumCounts(S, i - window + 1, i), window)

\* C1: in every returned table, a row at position i of its partition whose
\* predecessor lag rows earlier has a non-zero count has
\* yoy_growth (lag 12) / qoq_growth (lag 3) equal to
\* (count[i] - count[i-lag]) / count[i-lag] * 100.
C1_GrowthFormula ==
    Returned =>
        \A key \in KeysOf(Out) :
            LET S == Series(Out, key)
            IN  \A i \in 1..Len(S) :
                    /\ (i > YoYPeriods /\ CountAt(S, i - YoYPeriods) # 0)
                           => S[i].yoy_growth = ExpectedGrowth(S, i, YoYPeriods)
                    /\ (i > QoQPeriods /\ CountAt(S, i - QoQPeriods) # 0)
                           => S[i].qoq_growth = ExpectedGrowth(S, i, QoQPeriods)

\* The reference scenario: 13 months 100, 110, 120, 90, ..., 140 give a
\* yoy_growth of 40 on the 13th row and a qoq_growth of -10 on the 4th.
C1_Witness ==
    /\ Returned
    /\ Len(Out) = 13
    /\ \A i \in 1..13 : Out[i].date = i /\ CountAt(Out, i) = ScenarioCounts[i]
    /\ Out[13].yoy_growth = Num(40)
    /\ Out[4].qoq_growth = Num(-10)

\* C2: in every returned table, a row whose predecessor lag rows earlier has
\* count 0 has a missing yoy_growth / qoq_growth (never an infinite value).
C2_ZeroPredecessorGivesMissing ==
    Returned =>
        \A key \in KeysOf(Out) :
            LET S == Series(Out, key)
            IN  \A i \in 1..Len(S) :
                    /\ (i > YoYPeriods /\ CountAt(S, i - YoYPeriods) = 0)
                           => isna(S[i].yoy_growth)
                    /\ (i > QoQPeriods /\ CountAt(S, i - QoQPeriods) = 0)
                           => isna(S[i].qoq_growth)

\* C3: in every returned table the rows of one partition have strictly
\* increasing dates.
C3_StrictlyIncreasingPeriod ==
    Returned =>
        \A i \in 1..Len(Out), j \in 1..Len(Out) :
            (i < j /\ grouping_cols(Out[i]) = grouping_cols(Out[j]))
                => Out[i].date < Out[j].date

\* C4: in every returned table, yoy_growth is missing on the first 12 rows of
\* every partition (so on every row of a partition of fewer than 13 rows) and
\* qoq_growth on the first 3; missing is the NaN marker, not the number zero.
C4_InsufficientHistoryIsMissing ==
    Returned =>
        \A key \in KeysOf(Out) :
            LET S == Series(Out, key)
            IN  \A i \in 1..Len(S) :
                    /\ i <= YoYPeriods => isna(S[i].yoy_growth)
                    /\ i <= QoQPeriods => isna(S[i].qoq_growth)

\* A partition of 12 rows: no row has a yoy_growth, the 4th has a qoq_growth.
C4_Witness ==
    /\ Returned
    /\ Len(Out) = 12
    /\ Len(Series(Out, <<1, 1, 1>>)) = 12
    /\ \A i \in 1..12 : isna(Out[i].yoy_growth) /\ Out[i].yoy_growth # Num(0)
    /\ isna(Out[3].qoq_growth)
    /\ IsNum(Out[4].qoq_growth)

\* The rolling-average column of a window.
MaOf(m, window) ==
    CASE window = Window3 -> m.ma_3m
      [] window = Window6 -> m.ma_6m
      [] window = Window12 -> m.ma_12m

\* C5: in every returned table and for each window w of 3, 6, 12, the rolling
\* average of a partition is missing on its first w-1 rows and is the
\* arithmetic mean of the counts of rows i-w+1 .. i on every later row.
C5_RollingAverage ==
    Returned =>
        \A key \in KeysOf(Out) :
            LET S == Series(Out, key)
            IN  \A w \in {Window3, Window6, Window12} :
                    \A i \in 1..Len(S) :
                        IF i < w THEN isna(MaOf(S[i], w))
                        ELSE MaOf(S[i], w) = ExpectedMean(S, i, w)

\* The reference scenario: ma_3m is missing on rows 1-2 and 110 on row 3;
\* ma_6m starts on row 6 and ma_12m on row 12.
C5_Witness ==
    /\ Returned
    /\ Len(Out) = 13
    /\ \A i \in 1..13 : CountAt(Out, i) = ScenarioCounts[i]
    /\ isna(Out[1].ma_3m) /\ isna(Out[2].ma_3m)
    /\ Out[3].ma_3m = Num(110)
    /\ isna(Out[5].ma_6m) /\ Out[6].ma_6m = Rat(615, 6)
    /\ isna(Out[11].ma_12m) /\ Out[12].ma_12m = Num(110)
    /\ Out[13].ma_12m = Rat(1360, 12)

\* The last call was clean_and_process_data(raw_data).
CalledClean == ret.call = "clean_and_process_data"

\* The table the growth metrics of the last call were computed from.
MetricsInput == IF CalledClean THEN clean(raw_data) ELSE raw_data

\* Number of rows of a table equal to r.
Occurrences(df, r) == Cardinality({i \in 1..Len(df) : df[i] = r})

\* The observations of a processed table.
ObservationsOf(out) == AsSeq([i \in 1..Len(out) |-> ObservationOf(out[i])])

\* C6: a call on a table with zero rows, or clean_and_process_data on a table
\* whose rows are all removed by cleaning, returns a table with zero rows.
C6_EmptyInputGivesEmptyTable ==
    (ret.call # "none" /\ Len(MetricsInput) = 0)
        => (ret.status = "ok" /\ ret.rows = <<>>)

\* C7: a table returned by clean_and_process_data has no row with a missing
\* count and no row that is not an input row, and the growth fields and
\* rolling averages of each row are those of its position in the sequence of
\* the rows of its partition that remain.
C7_MissingCountIsNoPosition ==
    (CalledClean /\ Returned) =>
        /\ \A i \in 1..Len(Out) :
               /\ notna(Out[i].registration_count)
               /\ Occurrences(ObservationsOf(Out), ObservationOf(Out[i]))
                      <= Occurrences(raw_data, ObservationOf(Out[i]))
        /\ \A key \in KeysOf(Out) :
               LET S == Series(Out, key)
               IN  \A i \in 1..Len(S) :
                       /\ \A lag \in {QoQPeriods, YoYPeriods} :
                              LET g == IF lag = QoQPeriods THEN S[i].qoq_growth
                                       ELSE S[i].yoy_growth
                              IN  IF i <= lag THEN isna(g)
                                  ELSE CountAt(S, i - lag) # 0
                                           => g = ExpectedGrowth(S, i, lag)
                       /\ \A w \in {Window3, Window6, Window12} :
                              IF i < w THEN isna(MaOf(S[i], w))
                              ELSE MaOf(S[i], w) = ExpectedMean(S, i, w)

\* Months 1-5 with the count of month 2 missing: the four other rows are
\* returned; month 4 is the third row (no qoq_growth) and month 5 the fourth,
\* compared with month 1: (95 - 100) / 100 * 100 = -5, with ma_3m over
\* months 3, 4, 5.
C7_Witness ==
    /\ CalledClean /\ Returned
    /\ Len(raw_data) = 5
    /\ \A i \in 1..5 : raw_data[i].date = i
    /\ isna(raw_data[2].registration_count)
    /\ Len(Out) = 4
    /\ Out[3].date = 4 /\ isna(Out[3].qoq_growth)
    /\ Out[4].date = 5 /\ Out[4].qoq_growth = Num(-5)
    /\ Out[4].ma_3m = Rat(120 + 90 + 95, 3)

\* C8: a table returned by clean_and_process_data holds every input row with
\* a present count >= 0 exactly as often as the input does, and no other row.
C8_OnlyMissingCountsRemoved ==
    (CalledClean /\ Returned) =>
        /\ \A i \in 1..Len(raw_data) :
               LET r == raw_data[i]
               IN  (notna(r.registration_count) /\ Sign(r.registration_count) >= 0)
                       => Occurrences(ObservationsOf(Out), r)
                              = Occurrences(raw_data, r)
        /\ \A i \in 1..Len(Out) :
               LET r == ObservationOf(Out[i])
               IN  /\ notna(r.registration_count)
                   /\ Occurrences(raw_data, r) > 0

\* C9: in every returned table the rows of one partition are in ascending
\* order of date, and they are, in the same order, the rows computed for that
\* partition before the merge.
C9_ChronologicalWithinPartition ==
    Returned =>
        /\ \A i \in 1..Len(Out), j \in 1..Len(Out) :
               (i < j /\ grouping_cols(Out[i]) = grouping_cols(Out[j]))
                   => ~DateBefore(Out[j], Out[i])
        /\ \A key \in KeysOf(Out) :
               Series(Out, key) = group_metrics(MetricsInput, key, tie_order)

\* A table of two partitions returned for an input that was not in
\* chronological order.
C9_Witness ==
    /\ Returned
    /\ Cardinality(KeysOf(Out)) >= 2
    /\ \E i \in 1..Len(raw_data), j \in 1..Len(raw_data) :
           /\ i < j
           /\ grouping_cols(raw_data[i]) = grouping_cols(raw_data[j])
           /\ DateBefore(raw_data[j], raw_data[i])
    /\ \E i \in 1..Len(Out) : IsNum(Out[i].qoq_growth)

\* C10: a run of clean_and_process_data on the rows of an earlier run, in any
\* row order, returns the table the earlier run returned.
C10_SameMultisetSameOutput ==
    [][(ret'.call = "clean_and_process_data" /\ ret'.status = "ok"
            /\ ~processed_data.isNone)
           => ret'.rows = processed_data.rows]_vars

\* A row lacks one of the identity fields.
LacksIdentity(r) ==
    \/ r.state = NaNName
    \/ r.vehicle_category = NaNName
    \/ r.manufacturer = NaNName
    \/ r.date = NaT

\* C11: a call of clean_and_process_data or _calculate_growth_metrics on a table
\* with a row that lacks state, vehicle_category, manufacturer or date fails
\* with an error; it never returns a table (from which the row was dropped
\* or in which it was kept).
C11_MissingIdentityFieldFails ==
    (ret.call # "none" /\ \E i \in 1..Len(raw_data) : LacksIdentity(raw_data[i]))
        => ~Returned

\* A step that is a call of clean_and_process_data.
CleanCall == ret.call = "none" /\ ret'.call = "clean_and_process_data"

C14_PartitionIndependence ==
    Returned =>
        \A key \in KeysOf(Out) :
            Series(Out, key) =
                calculate_growth_metrics(Series(MetricsInput, key), tie_order).rows

\* A table with a row of another partition between the rows that a
\* quarter-over-quarter growth compares.
C14_Witness ==
    /\ Returned
    /\ Cardinality(KeysOf(Out)) = 2
    /\ Len(raw_data) >= 5 /\ raw_data[3].manufacturer = 2
    /\ \E i \in 1..Len(Out) :
           /\ Out[i].manufacturer = 1 /\ Out[i].date = 5
           /\ Out[i].qoq_growth = Num(-5)

\* The table the filters started from and the table they have left.
Unfiltered == processed_data.rows

Filtered == filtered_data.rows

DatesApplied == ~filtered_data.isNone /\ selection.dates # <<>>

CategoriesApplied == ~filtered_data.isNone /\ selection.categories # <<>>

ManufacturersApplied == ~filtered_data.isNone /\ selection.manufacturers # <<>>

\* Days from the start of the data to the day of a date string, and to the
\* period (first day of the month) of a row.
DayOfString(s) == ((s[1] - BaseYear) * 12 + s[2]) * 31 + s[3]

DayOfPeriod(r) == r.date * 31 + 1

\* C15: filter_by_date_range(rows, start, end) returns exactly the rows with
\* start <= period <= end, a row dated exactly start or exactly end included,
\* in their input order.
C15_DateRangeInclusive ==
    (DatesApplied /\ ~CategoriesApplied /\ ~ManufacturersApplied) =>
        Filtered =
            SelectSeq(Unfiltered, LAMBDA r :
                /\ DayOfString(selection.dates[1]) <= DayOfPeriod(r)
                /\ DayOfPeriod(r) <= DayOfString(selection.dates[2]))

\* A range from the middle of month 1 to the first day of month 2 on a table
\* with two partitions of two months: the rows of month 2, dated exactly the
\* end of the range, are kept in table order and those of month 1 are not.
C15_Witness ==
    /\ DatesApplied /\ ~CategoriesApplied /\ ~ManufacturersApplied
    /\ selection.dates = <<(<<BaseYear, 1, 15>>), (<<BaseYear, 2, 1>>)>>
    /\ Len(Unfiltered) = 4
    /\ Filtered = <<Unfiltered[2], Unfiltered[4]>>
    /\ Filtered[1].date = 2 /\ Filtered[2].date = 2

\* C16: filter_by_categories (filter_by_manufacturers) returns exactly the rows
\* whose vehicle_category (manufacturer) is in the given set, in input order;
\* with an empty set it returns no rows.
C16_MembershipFilters ==
    /\ (CategoriesApplied /\ ~DatesApplied /\ ~ManufacturersApplied) =>
           /\ Filtered = SelectSeq(Unfiltered, LAMBDA r :
                              r.vehicle_category \in selection.categories[1])
           /\ selection.categories[1] = {} => Filtered = <<>>
    /\ (ManufacturersApplied /\ ~DatesApplied /\ ~CategoriesApplied) =>
           /\ Filtered = SelectSeq(Unfiltered, LAMBDA r :
                              r.manufacturer \in selection.manufacturers[1])
           /\ selection.manufacturers[1] = {} => Filtered = <<>>

\* The empty set of categories applied to a table with rows.
C16_Witness ==
    /\ CategoriesApplied /\ ~DatesApplied /\ ~ManufacturersApplied
    /\ selection.categories[1] = {}
    /\ Len(Unfiltered) > 0
    /\ Filtered = <<>>

\* The filters that are applied, applied in the order dates, categories,
\* manufacturers.
InFixedOrder ==
    LET by_date == IF selection.dates = <<>> THEN Unfiltered
                   ELSE filter_by_date_range(Unfiltered, selection.dates[1],
                                             selection.dates[2])
        by_category == IF selection.categories = <<>> THEN by_date
                       ELSE filter_by_categories(by_date, selection.categories[1])
    IN  IF selection.manufacturers = <<>> THEN by_category
        ELSE filter_by_manufacturers(by_category, selection.manufacturers[1])

\* C17: the date, category and manufacturer filters commute: whatever the
\* order in which they were applied, the table left is the one the order dates,
\* categories, manufacturers leaves.
C17_FiltersCommute ==
    ~filtered_data.isNone => Filtered = InFixedOrder

\* All three filters applied, each of which removes rows of the table on its
\* own, and a row is left.
C17_Witness ==
    /\ DatesApplied /\ CategoriesApplied /\ ManufacturersApplied
    /\ filter_by_date_range(Unfiltered, selection.dates[1], selection.dates[2])
           # Unfiltered
    /\ filter_by_categories(Unfiltered, selection.categories[1]) # Unfiltered
    /\ filter_by_manufacturers(Unfiltered, selection.manufacturers[1]) # Unfiltered
    /\ Len(Filtered) > 0

\* The last summary call was get_top_performers(TopTable, 'registration_count',
\* TopBy, TopN) and returned Top.
TopCalled == result.call = "get_top_performers" /\ result.status = "ok"

TopTable == processed_data.rows

TopBy == result.args[1]

TopN == result.args[2]

Top == result.value

\* The groups of the table and the sum of the counts of the rows of a group.
GroupsOf(T, by) == {T[i][by] : i \in 1..Len(T)}

GroupTotal(T, by, g) ==
    LET rows == SelectSeq(T, LAMBDA r : r[by] = g)
    IN  SumCounts(rows, 1, Len(rows))

TopKeys == {Top[p].key : p \in 1..Len(Top)}

\* Index of the first row of a group in the table.
FirstRow(T, by, g) ==
    CHOOSE i \in 1..Len(T) : T[i][by] = g /\ \A j \in 1..(i - 1) : T[j][by] # g

\* C18: get_top_performers returns min(n, number of groups) distinct groups,
\* each with the sum of the metric over its rows, in descending order of sum,
\* and no group left out has a larger sum than a returned one.
C18_TopPerformers ==
    TopCalled =>
        LET groups == GroupsOf(TopTable, TopBy)
            total(g) == GroupTotal(TopTable, TopBy, g)
        IN  /\ Len(Top) = IF TopN < Cardinality(groups) THEN TopN
                          ELSE Cardinality(groups)
            /\ \A p \in 1..Len(Top) :
                   /\ Top[p].key \in groups
                   /\ Top[p].value = Num(total(Top[p].key))
            /\ \A p \in 1..Len(Top), q \in 1..Len(Top) :
                   p < q => /\ Top[p].key # Top[q].key
                            /\ total(Top[p].key) >= total(Top[q].key)
            /\ \A g \in groups \ TopKeys, p \in 1..Len(Top) :
                   total(g) <= total(Top[p].key)

\* Two manufacturers, the second with the larger sum, and n = 1: the second
\* is returned and the first is left out.
C18_Witness ==
    /\ TopCalled /\ TopBy = "manufacturer" /\ TopN = 1
    /\ GroupsOf(TopTable, TopBy) = {1, 2}
    /\ GroupTotal(TopTable, TopBy, 1) < GroupTotal(TopTable, TopBy, 2)
    /\ Len(Top) = 1 /\ Top[1].key = 2

DefinedYoY(T, category) ==
    {i \in 1..Len(T) : T[i].vehicle_category = category /\ notna(T[i].yoy_growth)}

\* C20: for every category with a row whose yoy_growth is defined, the
\* latest_yoy_growth of get_category_summary is the yoy_growth of such a row
\* of maximum date.
C20_LatestIsMaximumPeriod ==
    (result.call = "get_category_summary" /\ result.status = "ok") =>
        \A category \in DOMAIN result.value :
            LET T == processed_data.rows
                defined == DefinedYoY(T, category)
            IN  defined # {} =>
                    \E i \in defined :
                        /\ \A j \in defined : T[j].date <= T[i].date
                        /\ result.value[category].latest_yoy_growth = T[i].yoy_growth

\* The last summary call was get_category_summary() and returned Summary.
SummaryCalled == result.call = "get_category_summary" /\ result.status = "ok"

Summary == result.value

\* Sum of the total_registrations of the entries of the categories in S.
RECURSIVE TotalOfEntries(_, _)
TotalOfEntries(summary, S) ==
    IF S = {} THEN 0
    ELSE LET c == CHOOSE x \in S : TRUE
         IN  summary[c].total_registrations.n + TotalOfEntries(summary, S \ {c})

\* C21: get_category_summary returns one entry for each vehicle_category of
\* the table and no other (at least one when the table has rows); the
\* total_registrations of an entry is the sum of the counts of the rows of its
\* category, and the totals of all entries add up to the sum of the counts of
\* the table.
C21_CategorySummaryTotals ==
    SummaryCalled =>
        LET T == processed_data.rows
        IN  /\ DOMAIN Summary = GroupsOf(T, "vehicle_category")
            /\ Len(T) > 0 => DOMAIN Summary # {}
            /\ \A c \in DOMAIN Summary :
                   Summary[c].total_registrations =
                       Num(GroupTotal(T, "vehicle_category", c))
            /\ TotalOfEntries(Summary, DOMAIN Summary) = SumCounts(T, 1, Len(T))

\* A table with two categories of different sums.
C21_Witness ==
    /\ SummaryCalled
    /\ DOMAIN Summary = {1, 2}
    /\ Summary[1].total_registrations = Num(210)
    /\ Summary[2].total_registrations = Num(330)

SameIdentity(out, m) ==
    SelectSeq(out, LAMBDA x : /\ x.state = m.state
                              /\ x.vehicle_category = m.vehicle_category
                              /\ x.manufacturer = m.manufacturer)

\* C23: the rows with the same state, vehicle_category and manufacturer form
\* one Series whatever their vehicle_class: a row of another vehicle_class
\* counts as a row of the rolling window and as the lag predecessor like any
\* other.
C23_ClassNotInPartitionKey ==
    Returned =>
        \A m \in {Out[i] : i \in 1..Len(Out)} :
            LET S == SameIdentity(Out, m)
            IN  \A i \in 1..Len(S) :
                    /\ i >= Window3 => S[i].ma_3m = ExpectedMean(S, i, Window3)
                    /\ (i > QoQPeriods /\ CountAt(S, i - QoQPeriods) # 0)
                           => S[i].qoq_growth = ExpectedGrowth(S, i, QoQPeriods)
                    /\ i < Window3 => isna(S[i].ma_3m)

\* A partition with one row of vehicle_class 2 among rows of vehicle_class 1:
\* it is in the window of the next row's ma_3m and it is the lag predecessor
\* of the row three places after it.
C23_Witness ==
    /\ Returned
    /\ Len(Out) = 8
    /\ \A i \in 1..8 : grouping_cols(Out[i]) = <<1, 1, 1>>
    /\ \E p \in 2..4 :
           /\ Out[p].vehicle_class = 2
           /\ \A i \in (1..8) \ {p} : Out[i].vehicle_class = 1
           /\ Out[p + 1].ma_3m = ExpectedMean(Out, p + 1, Window3)
           /\ Out[p + 3].qoq_growth = ExpectedGrowth(Out, p + 3, QoQPeriods)

\* The processed table held in the session state.
SessionTable == session_state.processed_data.rows

Loaded == session_state.data_processor # "None"

Passes(r, sel) ==
    /\ Len(sel.dates) = 2 =>
           /\ DayOfString(sel.dates[1]) <= DayOfPeriod(r)
           /\ DayOfPeriod(r) <= DayOfString(sel.dates[2])
    /\ sel.categories[1] # {} => r.vehicle_category \in sel.categories[1]
    /\ sel.states[1] # {} => r.state \in sel.states[1]
    /\ sel.manufacturers[1] # {} => r.manufacturer \in sel.manufacturers[1]

\* C26: the table a run of the dashboard shows is the session's table without
\* the rows outside the date range (when two dates are given) and without the
\* rows whose category, state or manufacturer is not in a non-empty selection;
\* an empty selection removes no row.
C26_EmptySelectionIsNoFilter ==
    Loaded => Filtered = SelectSeq(SessionTable, LAMBDA r : Passes(r, selection))

\* No category selected and one of two manufacturers: the two rows of that
\* manufacturer are shown.
C26_Witness ==
    /\ Loaded
    /\ selection.categories[1] = {}
    /\ selection.manufacturers[1] = {1}
    /\ unique_values(SessionTable, "manufacturer") = {1, 2}
    /\ unique_values(Filtered, "manufacturer") = {1}
    /\ Len(SessionTable) = 4 /\ Len(Filtered) = 2

\* C25: every record of the generator has an integer registration_count of
\* at least 1.
C25_GeneratedCountAtLeastOne ==
    \A i \in 1..Len(raw_data) :
        /\ IsNum(raw_data[i].registration_count)
        /\ raw_data[i].registration_count.d = 1
        /\ raw_data[i].registration_count.n >= 1

\* The smallest count of a "3W" record of June 2020: int(500 * 0.7 * 0.3).
C25_Witness ==
    /\ Len(raw_data) = 1
    /\ raw_data[1].date = 6 /\ raw_data[1].vehicle_category = 2
    /\ raw_data[1].registration_count = Num(105)

\* The three calls that need the stored processed table.
NeedsProcessedData ==
    {"get_category_summary", "get_time_series_data", "export_processed_data"}

C28_NoGrowthReportedAsZero ==
    SummaryCalled =>
        \A category \in DOMAIN Summary :
            DefinedYoY(processed_data.rows, category) = {} =>
                Summary[category].latest_yoy_growth = Num(0)

\* One category with thirteen months of history, one with less.
C28_Witness ==
    /\ SummaryCalled
    /\ DOMAIN Summary = {1, 2}
    /\ DefinedYoY(processed_data.rows, 1) # {}
    /\ DefinedYoY(processed_data.rows, 2) = {}
    /\ Summary[2].latest_yoy_growth = Num(0)

\* Number of calls of quit on a driver.
QuitCount(sc, driver) ==
    Cardinality({k \in 1..Len(sc.quit_calls) : sc.quit_calls[k] = driver})

\* The pending call of scrape_multiple_states failed in setup_driver.
SetupFailed(sc) == sc.pending.status = "WebDriverException"

\* C29: quit is called nowhere but in the finally block of
\* scrape_multiple_states; there, when setup_driver succeeded, the driver it
\* returned is quit, for the only time, and when setup_driver failed no quit
\* is called and the call raises the exception of setup_driver.
C29_DriverQuitExactlyOnce ==
    [][/\ scraper.pc # "finally" => scraper'.quit_calls = scraper.quit_calls
       /\ (scraper.pc = "finally" /\ ~SetupFailed(scraper)) =>
              /\ scraper.driver = scraper.drivers
              /\ scraper'.quit_calls = Append(scraper.quit_calls, scraper.driver)
              /\ QuitCount(scraper', scraper.driver) = 1
       /\ (scraper.pc = "finally" /\ SetupFailed(scraper)) =>
              /\ scraper'.quit_calls = scraper.quit_calls
              /\ scraper'.outcome.status = "WebDriverException"]_vars

\* Place of a step in the body of the loop over the years.
StepNo(pc) ==
    CASE pc = "select_state" -> 1
      [] pc = "set_date_range" -> 2
      [] pc = "refresh_data" -> 3
      [] pc = "extract_table_data" -> 4
      [] pc = "return_state_data" -> 5
      [] OTHER -> 6

InLoops(sc) == StepNo(sc.pc) <= 5

\* The tables of the (state, year) pairs that had data, in attempt order.
RECURSIVE TablesOf(_)
TablesOf(pairs) ==
    IF pairs = <<>> THEN <<>>
    ELSE year_data(Head(pairs)[1], Head(pairs)[2]) \o TablesOf(Tail(pairs))

\* A call has ended whose setup_driver and navigation had succeeded.
Scraped(sc) ==
    /\ sc.pc = "idle"
    /\ sc.calls > 0
    /\ sc.outcome.status # "WebDriverException"
    /\ sc.state > 0 \/ sc.states = <<>>

\* C30: within the loops every step leads to the next step of the same
\* (state, year), to the first step of the next year or to the next state,
\* never back and never past one; and a call that reached the loops returns
\* the concatenation, in attempt order, of the tables of the (state, year)
\* pairs that had data.
C30_FailuresSkipOnlyTheirUnit ==
    [][/\ (InLoops(scraper) /\ InLoops(scraper')) =>
              \/ /\ scraper'.state = scraper.state
                 /\ scraper'.year = scraper.year
                 /\ StepNo(scraper'.pc) > StepNo(scraper.pc)
                 /\ StepNo(scraper'.pc) = StepNo(scraper.pc) + 1
                        \/ scraper.year = Len(scraper.years)
              \/ /\ scraper'.state = scraper.state
                 /\ scraper'.year = scraper.year + 1
                 /\ scraper'.pc = "select_state"
              \/ /\ scraper'.state = scraper.state + 1
                 /\ scraper'.year <= 1
                 /\ StepNo(scraper.pc) >= 4
       /\ (InLoops(scraper) /\ scraper'.pc = "return") =>
              scraper.state = Len(scraper.states)
       /\ Scraped(scraper') =>
              scraper'.outcome = Return(TablesOf(scraper'.succeeded))]_vars

====
